---- MODULE Spec2Model ----
(***************************************************************************)
(* The UserOperation gas estimator of rundler                              *)
(* (src/src/rpc/eth/estimation.rs): estimate_op_gas, the verification-gas  *)
(* binary search and the call-gas search through the estimation proxy,     *)
(* with the node and the proxy as nondeterministic responders.             *)
(*                                                                         *)
(* One behaviour is one call of estimate_op_gas.  An action is the code    *)
(* that runs between two awaits: it consumes the response of the RPC that  *)
(* was in flight and runs the handler up to the next RPC it sends (or to   *)
(* its return).  The two searches are the two futures of join!; their RPC  *)
(* completions interleave freely.                                          *)
(***************************************************************************)
EXTENDS Integers, Sequences, FiniteSets, TLC

(***************************************************************************)
(* Program constants.                                                      *)
(***************************************************************************)
GAS_ROUNDING == 4096
VERIFICATION_GAS_BUFFER_PERCENT == 10
GAS_FEE_TRANSFER_COST == 30000

\* common::precheck::MIN_CALL_GAS_LIMIT, which estimation.rs imports.
MIN_CALL_GAS_LIMIT == 9100

\* v0_6.rs: the fixed part of an ABI-encoded user operation, in bytes.
ABI_ENCODED_USER_OPERATION_FIXED_LEN == 512
PROXY_TARGET_OFFSET == 137
\* The length of an Address, written 20 in the source.
ADDRESS_LEN == 20

(***************************************************************************)
(* u64 is modelled with U64Bits bits: every u64 operation of the code is   *)
(* taken modulo U64Modulus, so that the overflow cases are reachable with  *)
(* numbers TLC can hold.  U256 values are unbounded integers.              *)
(***************************************************************************)
U64Bits == 20
U64Modulus == 2 ^ U64Bits

\* u128, the type of the gas fields of a user operation, is modelled with
\* U128Bits bits; U128Max is u128::MAX.
U128Bits == 24
U128Max == (2 ^ U128Bits) - 1

(***************************************************************************)
(* The model follows a verification search for at most MaxRounds attempts; *)
(* a search that is still running then is left in flight.                  *)
(***************************************************************************)
MaxRounds == 26

(***************************************************************************)
(* Inputs: the settings the estimator is constructed with, the length of   *)
(* the caller's paymasterAndData, and the values the node may answer.      *)
(***************************************************************************)
Settings(mv, mc, ms) ==
    [max_verification_gas |-> mv, max_call_gas |-> mc, max_simulate_handle_ops_gas |-> ms]

SettingsValues ==
    {Settings(40000, 20000, 100000), Settings(50, 20000, 100000), Settings(10, 10, 10)}

PaymasterAndDataLens == {0, 19, 20}

GasUsedValues ==
    {0, 40, 10000, (U64Modulus \div 2) - 1, U64Modulus \div 2, U64Modulus}

Thresholds == {0, 5, 30, 60, 15000, 200000}

Messages == {"AA23 reverted", "AA21 didn't pay prefund"}

\* The node's head when the model starts and the block that may follow it.
BlockHashes == {"h1", "h2"}

\* The chains: Chain::Arbitrum and Chain::Optimism charge an L1 data fee.
Chains == {"Mainnet", "Arbitrum", "Optimism"}

\* What the provider may answer as the L1 data gas of an operation.
L1DataGasValues == {0, 1000}

\* A byte string, by its length and the number of its non-zero bytes.
Bytes(len, nz) == [len |-> len, nonzero |-> nz]

\* Option<u128>.
NoGas == [some |-> FALSE, val |-> 0]
SomeGas(v) == [some |-> TRUE, val |-> v]

\* UserOperationOptionalGas, without its paymaster_and_data: the sender by
\* the number of its non-zero bytes, the byte strings, the optional gas fields.
UserOperationOptionalGas(snd, nonce, ic, cd, sig, cgl, vgl, pvg, mf, mpf) ==
    [sender |-> snd, nonce |-> nonce, init_code |-> ic, call_data |-> cd,
     signature |-> sig, call_gas_limit |-> cgl, verification_gas_limit |-> vgl,
     pre_verification_gas |-> pvg, max_fee_per_gas |-> mf,
     max_priority_fee_per_gas |-> mpf]

\* tests::demo_user_op_optional_gas.
DemoOp ==
    UserOperationOptionalGas(0, 0, Bytes(0, 0), Bytes(0, 0), Bytes(0, 0),
        SomeGas(1000), SomeGas(1000), SomeGas(1000), SomeGas(1000), SomeGas(1000))

\* Callers' operations that differ in their optional gas fields only, and
\* one with an init code, call data and a signature.
OptionalGasOps ==
    {DemoOp,
     [DemoOp EXCEPT !.call_gas_limit = NoGas, !.verification_gas_limit = NoGas,
                    !.pre_verification_gas = NoGas, !.max_fee_per_gas = NoGas,
                    !.max_priority_fee_per_gas = NoGas],
     [DemoOp EXCEPT !.call_gas_limit = SomeGas(0), !.verification_gas_limit = SomeGas(0),
                    !.pre_verification_gas = SomeGas(0), !.max_fee_per_gas = SomeGas(99999),
                    !.max_priority_fee_per_gas = NoGas],
     [DemoOp EXCEPT !.call_gas_limit = SomeGas(U128Max),
                    !.verification_gas_limit = SomeGas(70000),
                    !.pre_verification_gas = NoGas, !.max_fee_per_gas = NoGas,
                    !.max_priority_fee_per_gas = SomeGas(7)],
     UserOperationOptionalGas(20, 8942, Bytes(20, 20), Bytes(23, 2), Bytes(31, 31),
        SomeGas(10000), SomeGas(100000), SomeGas(100), NoGas, NoGas)}

(***************************************************************************)
(* Results: Result<U256, GasEstimationError> of the two searches and       *)
(* Result<GasEstimate, GasEstimationError> of estimate_op_gas.             *)
(***************************************************************************)
Pending == [kind |-> "Pending", gas |-> 0, msg |-> ""]
OkGas(g) == [kind |-> "Ok", gas |-> g, msg |-> ""]
RevertInValidation(m) == [kind |-> "RevertInValidation", gas |-> 0, msg |-> m]
RevertInCallWithMessage(m) == [kind |-> "RevertInCallWithMessage", gas |-> 0, msg |-> m]
RevertInCallWithBytes(b) == [kind |-> "RevertInCallWithBytes", gas |-> 0, msg |-> b]
Other(m) == [kind |-> "Other", gas |-> 0, msg |-> m]

ErrorKinds ==
    {"RevertInValidation", "RevertInCallWithMessage", "RevertInCallWithBytes", "Other"}

IsErr(r) == r.kind \in ErrorKinds

NoEstimate ==
    [kind |-> "Pending", pre_verification_gas |-> 0, verification_gas_limit |-> 0,
     call_gas_limit |-> 0, msg |-> ""]
OkEstimate(pvg, vgl, cgl) ==
    [kind |-> "Ok", pre_verification_gas |-> pvg, verification_gas_limit |-> vgl,
     call_gas_limit |-> cgl, msg |-> ""]
ErrEstimate(e) ==
    [kind |-> e.kind, pre_verification_gas |-> 0, verification_gas_limit |-> 0,
     call_gas_limit |-> 0, msg |-> e.msg]

Min(a, b) == IF a <= b THEN a ELSE b
Max(a, b) == IF a >= b THEN a ELSE b

VARIABLES
    settings,            \* GasEstimatorImpl.settings
    chain_id,            \* GasEstimatorImpl.chain_id
    op,                  \* the caller's UserOperationOptionalGas
    paymaster_and_data,  \* length of op.paymaster_and_data
    oracle,              \* how the node answers simulateHandleOp attempts
    profile,             \* "any" until a u64 overflow has wrapped, then "release"
    pc,                  \* position of estimate_op_gas
    block_hash,          \* the hash estimate_op_gas fetched
    pre_verification_gas,
    l1_data_gas,         \* the provider's answer to the L1 data gas query
    result,              \* what estimate_op_gas returned
    verPc,               \* position of binary_search_verification_gas
    max_failure_gas, min_success_gas, guess, num_rounds,
    verRes,              \* what binary_search_verification_gas returned
    probe_response,      \* the node's answer to the feasibility probe
    attempt_response,    \* the node's answer to the last verification attempt
    callPc,              \* position of estimate_call_gas
    min_gas, max_gas, is_continuation,
    callRes,             \* what estimate_call_gas returned
    call_response,       \* the answer to the last call-gas request
    call_requests,       \* simulateHandleOp calls estimate_call_gas has sent
    abi,                 \* an operation's abi_encoded_size and ABI encoding
    hashed,              \* two operations and their hashes
    proxy,               \* a proxy bytecode blob, its self-test and its relocations
    tracing,             \* a call of trace_find_user_operation
    latest_block,        \* the node's head
    evaluated_at         \* the block each kind of node call was last evaluated at

vars ==
    <<settings, chain_id, op, paymaster_and_data, oracle, profile, pc, block_hash,
      pre_verification_gas, l1_data_gas, result, verPc, max_failure_gas, min_success_gas,
      guess, num_rounds, verRes, probe_response, attempt_response, callPc, min_gas,
      max_gas, is_continuation, callRes, call_response, call_requests, abi,
      hashed, proxy, tracing, latest_block, evaluated_at>>

verVars ==
    <<verPc, max_failure_gas, min_success_gas, guess, num_rounds, verRes, probe_response,
      attempt_response>>
callVars ==
    <<callPc, min_gas, max_gas, is_continuation, callRes, call_response, call_requests>>
inputVars == <<settings, chain_id, op, paymaster_and_data, oracle>>
\* The variables of the checks of single functions.
unitVars == <<abi, hashed, proxy, tracing>>
nodeVars == <<latest_block, evaluated_at>>
estimateVars == <<profile, pc, block_hash, pre_verification_gas, l1_data_gas, result>>

(***************************************************************************)
(* Helpers of the code.                                                    *)
(***************************************************************************)

\* A u64 operation whose mathematical result is v: the value when it fits;
\* otherwise an abort in a build with overflow checks and the wrapped value
\* in a build without them.  The build is one and the same for the whole
\* run: once an overflow has wrapped, profile is "release".
U64Outcomes(v, prof) ==
    IF v < U64Modulus
    THEN {[panic |-> FALSE, val |-> v, profile |-> prof]}
    ELSE (IF prof = "any" THEN {[panic |-> TRUE, val |-> 0, profile |-> prof]} ELSE {})
         \cup {[panic |-> FALSE, val |-> v % U64Modulus, profile |-> "release"]}

\* get_address_from_field with the length test off by one.
get_address_from_field_off_by_one(data_len) ==
    IF data_len <= 20 THEN "None" ELSE "Some"

\* UserOperation::get_address_from_field on a field of data_len bytes.
get_address_from_field(data_len) == IF data_len < 20 THEN "None" ELSE "Some"

\* UserOperation::paymaster of the working op.
paymaster == get_address_from_field(paymaster_and_data)

(***************************************************************************)
(* User operations (v0_6.rs).                                              *)
(***************************************************************************)

\* The caller's operation with its paymaster_and_data, whose bytes the
\* model takes as all non-zero.
CallerOp ==
    [paymaster_and_data |-> Bytes(paymaster_and_data, paymaster_and_data)] @@ op

\* super::default_if_none_or_equal: the default for an unset value and for
\* one that equals `equal`.
default_if_none_or_equal(v, default, equal) ==
    IF ~v.some \/ v.val = equal THEN default ELSE v.val

\* Option::unwrap_or_default.
unwrap_or_default(v) == IF v.some THEN v.val ELSE 0

\* UserOperationOptionalGas::into_user_operation.
into_user_operation(self, max_call_gas, max_verification_gas) ==
    LET cgl == default_if_none_or_equal(self.call_gas_limit, max_call_gas, 0)
        vgl == default_if_none_or_equal(self.verification_gas_limit,
                                        max_verification_gas, 0)
        pvg == default_if_none_or_equal(self.pre_verification_gas, max_call_gas, 0)
    IN  [sender |-> self.sender,
         nonce |-> self.nonce,
         init_code |-> self.init_code,
         call_data |-> self.call_data,
         paymaster_and_data |-> self.paymaster_and_data,
         signature |-> self.signature,
         verification_gas_limit |-> vgl,
         call_gas_limit |-> cgl,
         pre_verification_gas |-> pvg,
         max_fee_per_gas |-> unwrap_or_default(self.max_fee_per_gas),
         max_priority_fee_per_gas |-> unwrap_or_default(self.max_priority_fee_per_gas)]

\* UserOperationOptionalGas::max_fill: the gas fields at u128::MAX, the
\* signature and paymaster_and_data filled with 0xff.
max_fill(self, max_call_gas, max_verification_gas) ==
    [into_user_operation(self, max_call_gas, max_verification_gas) EXCEPT
        !.call_gas_limit = U128Max,
        !.verification_gas_limit = U128Max,
        !.pre_verification_gas = U128Max,
        !.max_fee_per_gas = U128Max,
        !.max_priority_fee_per_gas = U128Max,
        !.signature = Bytes(self.signature.len, self.signature.len),
        !.paymaster_and_data =
            Bytes(self.paymaster_and_data.len, self.paymaster_and_data.len)]

\* The number of non-zero bytes of the big-endian encoding of n.
RECURSIVE NonZeroBytes(_)
NonZeroBytes(n) ==
    IF n = 0 THEN 0 ELSE (IF n % 256 = 0 THEN 0 ELSE 1) + NonZeroBytes(n \div 256)

\* A byte string of len bytes, nz of them non-zero, right-padded to whole
\* 32-byte words: each word by the number of its non-zero bytes.
RECURSIVE PaddedWords(_, _)
PaddedWords(len, nz) ==
    IF len <= 0 THEN <<>>
    ELSE <<IF nz < 32 THEN nz ELSE 32>>
            \o PaddedWords(len - 32, IF nz < 32 THEN 0 ELSE nz - 32)

\* The ABI encoding of a dynamic bytes value: its length, then its words.
AbiBytes(b) == <<NonZeroBytes(b.len)>> \o PaddedWords(b.len, b.nonzero)

\* ContractUserOperation::abi_encode: the encoding of the operation as one
\* dynamic struct, as a sequence of 32-byte words (each by the number of its
\* non-zero bytes): the offset of the struct, its eleven head words (a value
\* for a static field, the offset of its tail for a bytes field), and the
\* tails in field order.
abi_encode(uo) ==
    LET head == 11 * 32
        ic == AbiBytes(uo.init_code)
        cd == AbiBytes(uo.call_data)
        pm == AbiBytes(uo.paymaster_and_data)
        sg == AbiBytes(uo.signature)
        ic_at == head
        cd_at == ic_at + 32 * Len(ic)
        pm_at == cd_at + 32 * Len(cd)
        sg_at == pm_at + 32 * Len(pm)
    IN  <<NonZeroBytes(32),
          uo.sender,
          NonZeroBytes(uo.nonce),
          NonZeroBytes(ic_at),
          NonZeroBytes(cd_at),
          NonZeroBytes(uo.call_gas_limit),
          NonZeroBytes(uo.verification_gas_limit),
          NonZeroBytes(uo.pre_verification_gas),
          NonZeroBytes(uo.max_fee_per_gas),
          NonZeroBytes(uo.max_priority_fee_per_gas),
          NonZeroBytes(pm_at),
          NonZeroBytes(sg_at)>>
        \o ic \o cd \o pm \o sg

\* super::byte_array_abi_len with the padding left out.
byte_array_abi_len_unpadded(b) == b.len

\* super::byte_array_abi_len: the length of b rounded up to a multiple of 32.
byte_array_abi_len(b) == ((b.len + 31) \div 32) * 32

\* UserOperation::abi_encoded_size.
abi_encoded_size(self) ==
    ABI_ENCODED_USER_OPERATION_FIXED_LEN
        + byte_array_abi_len(self.init_code)
        + byte_array_abi_len(self.call_data)
        + byte_array_abi_len(self.paymaster_and_data)
        + byte_array_abi_len(self.signature)

\* The chain's gas constants (ChainSpec).
ChainSpec ==
    [calldata_zero_byte_gas |-> 4,
     calldata_non_zero_byte_gas |-> 16,
     per_user_op_word_gas |-> 4,
     per_user_op_v0_6_gas |-> 18300,
     per_user_op_deploy_overhead_gas |-> 0,
     transaction_intrinsic_gas |-> 21000]

RECURSIVE SumOfWords(_, _, _)
SumOfWords(words, zero, nonzero) ==
    IF words = <<>> THEN 0
    ELSE Head(words) * nonzero + (32 - Head(words)) * zero
            + SumOfWords(Tail(words), zero, nonzero)

\* super::op_calldata_gas_cost: the calldata gas of the encoded operation,
\* byte by byte, plus the per-word gas of its length in words.
op_calldata_gas_cost(encoded_op, zero_byte_gas, non_zero_byte_gas, per_word_gas) ==
    SumOfWords(encoded_op, zero_byte_gas, non_zero_byte_gas)
        + per_word_gas * Len(encoded_op)

\* UserOperation::factory.
factory(self) == get_address_from_field(self.init_code.len)

\* UserOperation::calc_static_pre_verification_gas.
calc_static_pre_verification_gas(self, chain_spec, include_fixed_gas_overhead) ==
    op_calldata_gas_cost(abi_encode(self),
                         chain_spec.calldata_zero_byte_gas,
                         chain_spec.calldata_non_zero_byte_gas,
                         chain_spec.per_user_op_word_gas)
        + chain_spec.per_user_op_v0_6_gas
        + (IF factory(self) = "Some"
           THEN chain_spec.per_user_op_deploy_overhead_gas ELSE 0)
        + (IF include_fixed_gas_overhead
           THEN chain_spec.transaction_intrinsic_gas ELSE 0)

\* gas::calc_pre_verification_gas: the static gas of the max-filled
\* operation, plus the L1 data gas l1 that the provider answers for the
\* random-filled one on Arbitrum and on Optimism.
gas_calc_pre_verification_gas(full_op, chain, l1) ==
    calc_static_pre_verification_gas(full_op, ChainSpec, TRUE)
        + (IF chain \in {"Arbitrum", "Optimism"} THEN l1 ELSE 0)

\* math::increase_by_percent, which the specification describes as
\* round_up(n * (1 + percent/100)).
increase_by_percent(n, percent) == (n * (100 + percent) + 99) \div 100

\* Ord::clamp is defined for min <= max and aborts otherwise.
clamp(x, lo, hi) == IF x < lo THEN lo ELSE IF x > hi THEN hi ELSE x

\* EntryPoint::decode_simulate_handle_ops_revert on a revert payload.
decode_simulate_handle_ops_revert(payload) ==
    IF payload.tag = "ExecutionResult"
    THEN [ok |-> TRUE, msg |-> ""]
    ELSE [ok |-> FALSE, msg |-> payload.msg]

\* eth::get_gas_used: an Err when the call failed in transport or came back
\* without reverting, the decoded GasUsedResult otherwise.
get_gas_used(resp) ==
    IF resp.kind \in {"transport", "no_revert"}
    THEN [ok |-> FALSE, gas_used |-> 0, success |-> FALSE, result |-> resp.result]
    ELSE [ok |-> TRUE, gas_used |-> resp.gas_used, success |-> resp.success,
          result |-> resp.result]

\* (min_success_gas as f64) / (max_failure_gas as f64) > 1.0 + MARGIN, with
\* MARGIN = 0.1: x/0.0 is +inf for x > 0 and NaN for x = 0, and NaN > 1.1 is
\* false.  The values of the model convert to f64 exactly.
\* The loop condition with a division by 0.0 taken as not above the margin.
LoopConditionWithoutInfinity(mins, maxf) ==
    IF maxf = 0 THEN FALSE ELSE mins * 10 > maxf * 11

LoopCondition(mins, maxf) ==
    IF maxf = 0 THEN mins > 0 ELSE mins * 10 > maxf * 11

(***************************************************************************)
(* The node.                                                               *)
(***************************************************************************)
ExecutionResultPayload == [tag |-> "ExecutionResult", msg |-> ""]
ValidationRevertPayload(m) == [tag |-> "ValidationRevert", msg |-> m]
RevertPayloads == {ExecutionResultPayload} \cup {ValidationRevertPayload(m) : m \in Messages}

Oracles ==
    {[mode |-> "monotone", T |-> t] : t \in Thresholds}
        \cup {[mode |-> "arbitrary", T |-> 0]}

NoProbeResponse ==
    [kind |-> "none", gas_used |-> 0, success |-> FALSE, result |-> ExecutionResultPayload]

\* What the node can answer to the feasibility probe.  A monotone node
\* validates the probe's op, whose limit is max_simulate_handle_ops_gas,
\* exactly when that limit reaches its threshold.
ProbeResponses ==
    LET payloads ==
            IF oracle.mode = "monotone"
            THEN IF settings.max_simulate_handle_ops_gas >= oracle.T
                 THEN {ExecutionResultPayload}
                 ELSE {ValidationRevertPayload(m) : m \in Messages}
            ELSE RevertPayloads
    IN  {[kind |-> k, gas_used |-> 0, success |-> FALSE, result |-> ExecutionResultPayload] :
            k \in {"transport", "no_revert"}}
        \cup {[kind |-> "revert", gas_used |-> g, success |-> s, result |-> r] :
                g \in GasUsedValues, s \in BOOLEAN, r \in payloads}

\* What the node can answer to a verification attempt at limit g.
AttemptOutcomes(g) ==
    IF oracle.mode = "monotone"
    THEN {IF g >= oracle.T THEN "success" ELSE "revert"}
    ELSE {"success", "revert", "transport"}

(***************************************************************************)
(* estimate_op_gas: the join of the two searches and the post-processing.  *)
(***************************************************************************)

\* try_join! would produce its output at the first error.
try_join_ready(vr, cr) ==
    IsErr(vr) \/ IsErr(cr) \/ (vr.kind # "Pending" /\ cr.kind # "Pending")

\* join!: the output is produced when both futures have completed.
join_ready(vr, cr) == vr.kind # "Pending" /\ cr.kind # "Pending"

\* Lines 132-133: verification_gas_limit? and then call_gas_limit?: the
\* error estimate_op_gas returns, Pending when both searches returned Ok.
verification_error_only(vr, cr) ==
    IF IsErr(vr) THEN vr ELSE Pending

call_error_first(vr, cr) ==
    IF IsErr(cr) THEN cr ELSE IF IsErr(vr) THEN vr ELSE Pending

first_error(vr, cr) ==
    IF IsErr(vr) THEN vr ELSE IF IsErr(cr) THEN cr ELSE Pending

\* Lines 136-140: the verification gas limit of the estimate.
verification_gas_limit_without_buffer(raw) ==
    Min(raw, settings.max_verification_gas)

final_verification_gas_limit(raw) ==
    Min(increase_by_percent(raw, VERIFICATION_GAS_BUFFER_PERCENT),
        settings.max_verification_gas)

\* Line 141: the call gas limit of the estimate.
call_gas_limit_without_clamp(gas) == gas

final_call_gas_limit(gas) ==
    clamp(gas, MIN_CALL_GAS_LIMIT, settings.max_call_gas)

\* Lines 132-142 with a clamp that returns a bound instead of aborting.
FinalizeWithoutAbort(vr, cr) ==
    LET e == first_error(vr, cr)
    IN  IF IsErr(e) THEN [pc |-> "done", result |-> ErrEstimate(e)]
        ELSE [pc |-> "done",
              result |-> OkEstimate(pre_verification_gas,
                                    final_verification_gas_limit(vr.gas),
                                    final_call_gas_limit(cr.gas))]

\* Lines 132-142: the error if there is one, then the estimate; clamp
\* aborts when MIN_CALL_GAS_LIMIT > max_call_gas.
Finalize(vr, cr) ==
    LET e == first_error(vr, cr)
    IN  IF IsErr(e) THEN [pc |-> "done", result |-> ErrEstimate(e)]
        ELSE IF MIN_CALL_GAS_LIMIT > settings.max_call_gas
        THEN [pc |-> "panicked", result |-> NoEstimate]
        ELSE [pc |-> "done",
              result |-> OkEstimate(pre_verification_gas,
                                    final_verification_gas_limit(vr.gas),
                                    final_call_gas_limit(cr.gas))]

\* The state of estimate_op_gas after a poll that left the searches at vr, cr.
Joined(vr, cr) ==
    IF join_ready(vr, cr) THEN Finalize(vr, cr)
    ELSE [pc |-> "join", result |-> NoEstimate]

(***************************************************************************)
(* binary_search_verification_gas.                                         *)
(***************************************************************************)

\* A state of the search: where it is, its locals and what it returned.
VerState(p, maxf, mins, g, nr, res, prof, panic) ==
    [verPc |-> p, max_failure_gas |-> maxf, min_success_gas |-> mins, guess |-> g,
     num_rounds |-> nr, verRes |-> res, profile |-> prof, panic |-> panic]

\* Lines 233-242: the paymaster adjustment and the return.
VerReturn(maxf, mins, g, nr, prof) ==
    LET raw == IF paymaster = "None" THEN mins + GAS_FEE_TRANSFER_COST ELSE mins
    IN  {VerState("done", maxf, mins, g, nr, OkGas(o.val), o.profile, o.panic) :
            o \in U64Outcomes(raw, prof)}

\* Lines 220-224: the head of the while loop: send the next attempt, or leave.
VerLoopHead(maxf, mins, g, nr, prof) ==
    IF LoopCondition(mins, maxf)
    THEN {VerState("attempt", maxf, mins, g, nr + 1, Pending, prof, FALSE)}
    ELSE VerReturn(maxf, mins, g, nr, prof)

\* The search returns error e; its locals go out of scope.
VerFail(e) == VerState("done", 0, 0, 0, 0, e, profile, FALSE)

\* The search aborts.
VerPanic(prof) == VerState("done", 0, 0, 0, 0, Pending, prof, TRUE)

\* Lines 171-193 without the check of gas_used.success.
probe_error_ignoring_success(r, d) ==
    IF ~r.ok THEN Other("failed to run initial guess")
    ELSE IF ~d.ok THEN RevertInValidation(d.msg)
    ELSE Pending

\* Lines 171-193 with the decoded message reported as an internal error.
probe_error_as_other(r, d) ==
    IF ~r.ok THEN Other("failed to run initial guess")
    ELSE IF r.success THEN Other("simulateHandleOp succeeded, but should always revert")
    ELSE IF ~d.ok THEN Other(d.msg)
    ELSE Pending

\* Lines 171-193 without the check of the decoded revert.
probe_error_ignoring_revert(r, d) ==
    IF ~r.ok THEN Other("failed to run initial guess")
    ELSE IF r.success THEN Other("simulateHandleOp succeeded, but should always revert")
    ELSE Pending

\* Lines 171-193: the error the probe's answer r, with its revert payload
\* decoded to d, ends the search with; Pending when the search goes on.
probe_error(r, d) ==
    IF ~r.ok THEN Other("failed to run initial guess")
    ELSE IF r.success THEN Other("simulateHandleOp succeeded, but should always revert")
    ELSE IF ~d.ok THEN RevertInValidation(d.msg)
    ELSE Pending

\* Lines 171-219: the code that runs on the probe's response.
VerAfterProbe(resp) ==
    LET r == get_gas_used(resp)
        d == decode_simulate_handle_ops_revert(r.result)
        e == probe_error(r, d)
    IN  IF IsErr(e) THEN {VerFail(e)}
        ELSE IF r.gas_used >= U64Modulus
        THEN {VerPanic(profile)}
        ELSE UNION {
                IF o.panic
                THEN {VerPanic(o.profile)}
                ELSE VerLoopHead(0, settings.max_verification_gas, o.val, 0, o.profile) :
                    o \in U64Outcomes(r.gas_used * 2, profile)}

\* The search returns error e out of its loop, its locals as they are.
VerFailInLoop(e) ==
    VerState("done", max_failure_gas, min_success_gas, guess, num_rounds, e, profile, FALSE)

\* Lines 224-231 with an attempt that could not run counted as a failed one.
VerAfterAttemptCountingErrors(outcome) ==
    LET is_failure == outcome \in {"revert", "transport"}
        maxf == IF is_failure THEN guess ELSE max_failure_gas
        mins == IF is_failure THEN min_success_gas ELSE guess
    IN  UNION {
           IF o.panic
           THEN {VerPanic(o.profile)}
           ELSE VerLoopHead(maxf, mins, o.val \div 2, num_rounds, o.profile) :
               o \in U64Outcomes(maxf + mins, profile)}

\* Lines 224-231: the code that runs on an attempt's response.
VerAfterAttempt(outcome) ==
    IF outcome = "transport" THEN {VerFailInLoop(Other("transport"))}
    ELSE LET is_failure == outcome = "revert"
             maxf == IF is_failure THEN guess ELSE max_failure_gas
             mins == IF is_failure THEN min_success_gas ELSE guess
         IN  UNION {
                IF o.panic
                THEN {VerPanic(o.profile)}
                ELSE VerLoopHead(maxf, mins, o.val \div 2, num_rounds, o.profile) :
                    o \in U64Outcomes(maxf + mins, profile)}

\* The verification future moves to state v.
VerStep(v, resp, outcome) ==
    /\ probe_response' = resp
    /\ attempt_response' = outcome
    /\ verPc' = v.verPc
    /\ max_failure_gas' = v.max_failure_gas
    /\ min_success_gas' = v.min_success_gas
    /\ guess' = v.guess
    /\ num_rounds' = v.num_rounds
    /\ verRes' = v.verRes
    /\ profile' = v.profile
    /\ IF v.panic
       THEN pc' = "panicked" /\ result' = NoEstimate
       ELSE LET j == Joined(v.verRes, callRes)
            IN  pc' = j.pc /\ result' = j.result
    /\ UNCHANGED <<inputVars, block_hash, pre_verification_gas, l1_data_gas, callVars,
                   unitVars, latest_block>>

\* Lines 171-181: the answer to the probe.  get_gas_used is not given
\* block_hash, so the node evaluates the call at its head.
ProbeReturn ==
    /\ pc = "join"
    /\ verPc = "probe"
    /\ evaluated_at' = [evaluated_at EXCEPT !.probe = latest_block]
    /\ \E resp \in ProbeResponses : \E v \in VerAfterProbe(resp) : VerStep(v, resp, attempt_response)

\* Lines 195-214: the answer to an attempt, which was sent with block_hash.
AttemptReturn ==
    /\ pc = "join"
    /\ verPc = "attempt"
    /\ evaluated_at' = [evaluated_at EXCEPT !.attempt = block_hash]
    /\ num_rounds < MaxRounds
    /\ \E outcome \in AttemptOutcomes(guess) :
            \E v \in VerAfterAttempt(outcome) : VerStep(v, probe_response, outcome)

(***************************************************************************)
(* estimate_call_gas.                                                      *)
(***************************************************************************)
CallGasEstimates == {100, 10000, 32768}
ContinuationMins == {4096, 12288}
ContinuationMaxs == {8192, 20000}

\* Revert data of the inner call: the bytes, with their selector and, for a
\* standard Error(string), the string they encode; empty bytes have neither.
RevertDatas ==
    {[selector |-> "Error(string)", body |-> "boom", bytes |-> "0x08c379a0:boom"],
     [selector |-> "0xdeadbeef", body |-> "", bytes |-> "0xdeadbeef"],
     [selector |-> "", body |-> "", bytes |-> "0x"]}

\* eth::parse_revert_message: the string of a standard Error(string) revert.
parse_revert_message(revert_data) ==
    IF revert_data.selector = "Error(string)"
    THEN [some |-> TRUE, msg |-> revert_data.body]
    ELSE [some |-> FALSE, msg |-> ""]

ProxyResponse(k, m, t, g, d, lo, hi) ==
    [kind |-> k, msg |-> m, tag |-> t, gas_estimate |-> g, revert_data |-> d,
     min_gas |-> lo, max_gas |-> hi]

NoRevertData == [selector |-> "", body |-> "", bytes |-> ""]

NoProxyResponse == ProxyResponse("none", "", "", 0, NoRevertData, 0, 0)

\* What call_spoofed_simulate_op can answer to a call-gas request: a
\* transport error, a validation revert of simulateHandleOp, or an
\* ExecutionResult whose target_result is the proxy's revert data.
ProxyResponses ==
    {ProxyResponse("transport", "", "", 0, NoRevertData, 0, 0)}
    \cup {ProxyResponse("validation_revert", m, "", 0, NoRevertData, 0, 0) : m \in Messages}
    \cup {ProxyResponse("target", "", "Result", g, NoRevertData, 0, 0) : g \in CallGasEstimates}
    \cup {ProxyResponse("target", "", "RevertAtMax", 0, d, 0, 0) : d \in RevertDatas}
    \cup {ProxyResponse("target", "", "Continuation", 0, NoRevertData, lo, hi) :
            lo \in ContinuationMins, hi \in ContinuationMaxs}
    \cup {ProxyResponse("target", "", "Undecodable", 0, NoRevertData, 0, 0)}

CallState(p, lo, hi, cont, res) ==
    [callPc |-> p, min_gas |-> lo, max_gas |-> hi, is_continuation |-> cont,
     callRes |-> res]

\* estimate_call_gas returns res; its locals go out of scope.
CallReturn(res) == CallState("done", 0, 0, FALSE, res)

\* Lines 317-333 without the progress guard.
CallContinuationWithoutGuard(cont) ==
    CallState("request", Max(min_gas, cont.min_gas), Min(max_gas, cont.max_gas),
              TRUE, Pending)

\* Lines 317-333 with a progress guard that compares strictly.
CallContinuationStrictGuard(cont) ==
    IF is_continuation /\ cont.min_gas < min_gas /\ cont.max_gas > max_gas
    THEN CallReturn(Other("estimateCallGas should make progress each time it is called"))
    ELSE CallState("request", Max(min_gas, cont.min_gas), Min(max_gas, cont.max_gas),
                   TRUE, Pending)

\* Lines 317-333 with the continuation's bounds taken as they come.
CallContinuationReplacingBounds(cont) ==
    IF is_continuation /\ cont.min_gas <= min_gas /\ cont.max_gas >= max_gas
    THEN CallReturn(Other("estimateCallGas should make progress each time it is called"))
    ELSE CallState("request", cont.min_gas, cont.max_gas, TRUE, Pending)

\* Lines 317-333: a continuation: the progress guard, then the new bounds
\* and the next request.
CallContinuation(cont) ==
    IF is_continuation /\ cont.min_gas <= min_gas /\ cont.max_gas >= max_gas
    THEN CallReturn(Other("estimateCallGas should make progress each time it is called"))
    ELSE CallState("request", Max(min_gas, cont.min_gas), Min(max_gas, cont.max_gas),
                   TRUE, Pending)

\* Lines 303-309 with the estimate cut to the bound of the request.
CallResultWithinBounds(res) == CallReturn(OkGas(Min(res.gas_estimate, max_gas)))

\* Lines 303-309: an EstimateCallGasResult ends the search with its estimate.
CallResult(res) == CallReturn(OkGas(res.gas_estimate))

\* Lines 310-316 with every revert reported by its bytes.
CallRevertAtMaxAsBytes(revert) ==
    CallReturn(RevertInCallWithBytes(revert.revert_data.bytes))

\* Lines 310-316: an EstimateCallGasRevertAtMax ends the search with the
\* revert's message, or with its bytes when they hold no message.
CallRevertAtMax(revert) ==
    LET message == parse_revert_message(revert.revert_data)
    IN  IF message.some
        THEN CallReturn(RevertInCallWithMessage(message.msg))
        ELSE CallReturn(RevertInCallWithBytes(revert.revert_data.bytes))

\* Lines 290-338: the code that runs on the response to a call-gas request.
CallAfterResponse(resp) ==
    IF resp.kind = "transport" THEN CallReturn(Other("transport"))
    ELSE IF resp.kind = "validation_revert"
    THEN CallReturn(RevertInCallWithMessage(resp.msg))
    ELSE IF resp.tag = "Result" THEN CallResult(resp)
    ELSE IF resp.tag = "RevertAtMax" THEN CallRevertAtMax(resp)
    ELSE IF resp.tag = "Continuation" THEN CallContinuation(resp)
    ELSE CallReturn(Other("estimateCallGas revert should be a Result or a Continuation"))

\* Lines 253-277: the code that runs on the response to get_code.
CallAfterGetCode(ok) ==
    IF ok
    THEN CallState("request", 0, settings.max_call_gas, FALSE, Pending)
    ELSE CallReturn(Other("transport"))

\* The call-gas future moves to state c; a future that is at "request"
\* has sent one more call_spoofed_simulate_op (line 290).
CallStep(c, resp) ==
    /\ call_response' = resp
    /\ call_requests' = IF c.callPc = "request" THEN call_requests + 1 ELSE call_requests
    /\ callPc' = c.callPc
    /\ min_gas' = c.min_gas
    /\ max_gas' = c.max_gas
    /\ is_continuation' = c.is_continuation
    /\ callRes' = c.callRes
    /\ LET j == Joined(verRes, c.callRes)
       IN  pc' = j.pc /\ result' = j.result
    /\ UNCHANGED <<inputVars, profile, block_hash, pre_verification_gas, l1_data_gas, verVars,
                   unitVars, latest_block>>

\* Lines 253-256: get_code(entry point, Some(block_hash)).
GetCodeReturn ==
    /\ pc = "join"
    /\ callPc = "get_code"
    /\ evaluated_at' = [evaluated_at EXCEPT !.get_code = block_hash]
    /\ \E ok \in BOOLEAN : CallStep(CallAfterGetCode(ok), call_response)

\* Lines 290-302: the answer to a request, which was sent with block_hash.
CallRequestReturn ==
    /\ pc = "join"
    /\ callPc = "request"
    /\ evaluated_at' = [evaluated_at EXCEPT !.request = block_hash]
    /\ \E resp \in ProxyResponses : CallStep(CallAfterResponse(resp), resp)

(***************************************************************************)
(* estimate_op_gas up to the join.                                         *)
(***************************************************************************)

\* Lines 342-354 with the caller's operation passed on as it is filled by
\* into_user_operation.
calc_pre_verification_gas_of_caller_op(l1) ==
    gas_calc_pre_verification_gas(
        into_user_operation(CallerOp, settings.max_call_gas, settings.max_verification_gas),
        chain_id, l1)

\* Lines 342-354: calc_pre_verification_gas passes the max-filled operation
\* (and the random-filled one, which the provider's answer l1 is about).
calc_pre_verification_gas(l1) ==
    gas_calc_pre_verification_gas(
        max_fill(CallerOp, settings.max_call_gas, settings.max_verification_gas),
        chain_id, l1)

\* Lines 114-121 without the two fee fields.
WorkingOpWithCallerFees ==
    [into_user_operation(CallerOp, settings.max_call_gas, settings.max_verification_gas)
        EXCEPT !.pre_verification_gas = pre_verification_gas,
               !.verification_gas_limit = settings.max_verification_gas,
               !.call_gas_limit = settings.max_call_gas]

\* Lines 114-121 without the two gas limits.
WorkingOpWithCallerLimits ==
    [into_user_operation(CallerOp, settings.max_call_gas, settings.max_verification_gas)
        EXCEPT !.pre_verification_gas = pre_verification_gas,
               !.max_fee_per_gas = 0,
               !.max_priority_fee_per_gas = 0]

\* Lines 114-121: the operation the two searches work on.
WorkingOp ==
    [into_user_operation(CallerOp, settings.max_call_gas, settings.max_verification_gas)
        EXCEPT !.pre_verification_gas = pre_verification_gas,
               !.verification_gas_limit = settings.max_verification_gas,
               !.call_gas_limit = settings.max_call_gas,
               !.max_fee_per_gas = 0,
               !.max_priority_fee_per_gas = 0]

\* Lines 166-170: the operation of the feasibility probe.
initial_op ==
    [WorkingOp EXCEPT !.verification_gas_limit = settings.max_simulate_handle_ops_gas,
                      !.call_gas_limit = 0]

\* Lines 196-200: the operation of a verification attempt at limit gas.
attempt_op(gas) ==
    [WorkingOp EXCEPT !.verification_gas_limit = gas, !.call_gas_limit = 0]

\* Lines 270-273: the operation of the call-gas requests.
callless_op == [WorkingOp EXCEPT !.call_gas_limit = 0]

\* The operations that are at the node: the one each search has sent and
\* is waiting on.
OpsInFlight ==
    (IF verPc = "probe" THEN {initial_op} ELSE {})
        \cup (IF verPc = "attempt" THEN {attempt_op(guess)} ELSE {})
        \cup (IF callPc = "request" THEN {callless_op} ELSE {})

\* Line 105 followed at once by the join of lines 123-129, with the
\* pre-verification gas calculation left in flight.
GetLatestBlockHashIssuingSearches ==
    /\ pc = "start"
    /\ \/ /\ pc' = "pre_verification" /\ block_hash' = latest_block /\ result' = result
          /\ verPc' = "probe"
          /\ callPc' = "get_code"
       \/ /\ pc' = "done" /\ result' = ErrEstimate(Other("transport")) /\ block_hash' = block_hash
          /\ UNCHANGED <<verPc, callPc>>
    /\ UNCHANGED <<inputVars, profile, pre_verification_gas, l1_data_gas, max_failure_gas,
                   min_success_gas, guess, num_rounds, verRes, probe_response,
                   attempt_response, min_gas, max_gas, is_continuation, callRes,
                   call_response, call_requests, unitVars, nodeVars>>

\* Line 105: provider.get_latest_block_hash().await?
GetLatestBlockHash ==
    /\ pc = "start"
    /\ \/ pc' = "pre_verification" /\ block_hash' = latest_block /\ result' = result
       \/ pc' = "done" /\ result' = ErrEstimate(Other("transport")) /\ block_hash' = block_hash
    /\ UNCHANGED <<inputVars, profile, pre_verification_gas, l1_data_gas, verVars, callVars,
                   unitVars, nodeVars>>

\* Lines 108-129: calc_pre_verification_gas(&op).await?, the working op, and
\* the first poll of join!, which runs each search up to its first RPC.
CalcPreVerificationGas ==
    /\ pc = "pre_verification"
    /\ \/ \E l1 \in L1DataGasValues :
            /\ chain_id = "Mainnet" => l1 = 0
            /\ l1_data_gas' = l1
            /\ pre_verification_gas' = calc_pre_verification_gas(l1)
            /\ pc' = "join"
            /\ verPc' = "probe"
            /\ callPc' = "get_code"
            /\ result' = result
       \/ /\ pc' = "done"
          /\ result' = ErrEstimate(Other("transport"))
          /\ UNCHANGED <<pre_verification_gas, l1_data_gas, verPc, callPc>>
    /\ UNCHANGED <<inputVars, profile, block_hash, max_failure_gas, min_success_gas,
                   guess, num_rounds, verRes, probe_response, attempt_response,
                   min_gas, max_gas, is_continuation, callRes, call_response, call_requests,
                   unitVars, nodeVars>>

(***************************************************************************)
(* UserOperation::hash (v0_6.rs).  keccak256 is modelled as a free,        *)
(* collision-free constructor: a digest is the data it was computed from,  *)
(* tagged.  The ABI encoding of a struct of static fields is the tuple of  *)
(* its fields.                                                             *)
(***************************************************************************)
keccak256(data) == <<"keccak256", data>>

\* From<UserOperation> for UserOperationPackedForHash with the signature
\* packed as well.
UserOperationPackedForHashWithSignature(uo) ==
    <<uo.sender, uo.nonce, keccak256(uo.init_code), keccak256(uo.call_data),
      uo.call_gas_limit, uo.verification_gas_limit, uo.pre_verification_gas,
      uo.max_fee_per_gas, uo.max_priority_fee_per_gas,
      keccak256(uo.paymaster_and_data), keccak256(uo.signature)>>

\* From<UserOperation> for UserOperationPackedForHash.
UserOperationPackedForHash(uo) ==
    <<uo.sender, uo.nonce, keccak256(uo.init_code), keccak256(uo.call_data),
      uo.call_gas_limit, uo.verification_gas_limit, uo.pre_verification_gas,
      uo.max_fee_per_gas, uo.max_priority_fee_per_gas,
      keccak256(uo.paymaster_and_data)>>

\* UserOperationHashEncoded of UserOperation::hash: the preimage of the hash.
UserOperationHashEncoded(self, entry_point, chain) ==
    <<keccak256(UserOperationPackedForHash(self)), entry_point, chain>>

\* UserOperation::hash.
hash(self, entry_point, chain) ==
    keccak256(UserOperationHashEncoded(self, entry_point, chain))

\* An operation hashed for an entry point and a chain id.
Hashed(uo, entry_point, chain) ==
    [op |-> uo, entry_point |-> entry_point, chain_id |-> chain,
     encoded |-> UserOperationHashEncoded(uo, entry_point, chain),
     hash |-> hash(uo, entry_point, chain)]

\* tests::test_hash_zeroed: the operation with every field zero or empty.
ZeroedOp ==
    [sender |-> 0, nonce |-> 0, init_code |-> Bytes(0, 0), call_data |-> Bytes(0, 0),
     paymaster_and_data |-> Bytes(0, 0), signature |-> Bytes(0, 0),
     verification_gas_limit |-> 0, call_gas_limit |-> 0, pre_verification_gas |-> 0,
     max_fee_per_gas |-> 0, max_priority_fee_per_gas |-> 0]

\* No node call of the searches has been evaluated.
NotEvaluated == [probe |-> "none", attempt |-> "none", get_code |-> "none", request |-> "none"]

\* No proxy bytecode is under consideration.
NoProxy == [loaded |-> FALSE]

\* trace_find_user_operation has not been called.
NoTracing == [pc |-> "idle"]

\* Nothing has been hashed.
NoHash == [done |-> FALSE]

\* No operation has been encoded.
NoAbi == [of |-> "none", size |-> 0, encoded |-> <<>>]

\* The state of a call of estimate_op_gas before its first step.
Start ==
    /\ profile = "any"
    /\ pc = "start"
    /\ block_hash = "none"
    /\ pre_verification_gas = 0
    /\ l1_data_gas = 0
    /\ result = NoEstimate
    /\ verPc = "idle"
    /\ max_failure_gas = 0
    /\ min_success_gas = 0
    /\ guess = 0
    /\ num_rounds = 0
    /\ verRes = Pending
    /\ probe_response = NoProbeResponse
    /\ attempt_response = "none"
    /\ callPc = "idle"
    /\ min_gas = 0
    /\ max_gas = 0
    /\ is_continuation = FALSE
    /\ callRes = Pending
    /\ call_response = NoProxyResponse
    /\ call_requests = 0
    /\ abi = NoAbi
    /\ hashed = NoHash
    /\ proxy = NoProxy
    /\ tracing = NoTracing
    /\ latest_block = "h1"
    /\ evaluated_at = NotEvaluated

\* A call with the operation of the tests, on a chain without L1 data fee,
\* under every setting and node.
Init ==
    /\ settings \in SettingsValues
    /\ chain_id = "Mainnet"
    /\ op = DemoOp
    /\ paymaster_and_data \in PaymasterAndDataLens
    /\ oracle \in Oracles
    /\ Start

\* Calls that differ in the optional gas fields of the operation and in
\* the chain, under one setting.
InitOptionalGas ==
    /\ settings = Settings(50, 20000, 100000)
    /\ chain_id \in Chains
    /\ op \in OptionalGasOps
    /\ paymaster_and_data \in {0, 20}
    /\ oracle = [mode |-> "monotone", T |-> 30]
    /\ Start

Next ==
    \/ GetLatestBlockHash
    \/ CalcPreVerificationGas
    \/ ProbeReturn
    \/ AttemptReturn
    \/ GetCodeReturn
    \/ CallRequestReturn

Spec == Init /\ [][Next]_vars

SpecOptionalGas == InitOptionalGas /\ [][Next]_vars

(***************************************************************************)
(* The proxy bytecode: estimation_proxy_bytecode_with_target and the       *)
(* self-test test_proxy_target_offset, on blobs that hold the sentinel at  *)
(* any subset of a few offsets.  A blob is a sequence of bytes; offsets    *)
(* count from 0 as in the source.                                          *)
(***************************************************************************)

\* PROXY_TARGET_CONSTANT, hex-decoded.
PROXY_TARGET_CONSTANT ==
    <<161, 61, 180, 236, 251, 206, 5, 134, 229, 125, 26, 238, 34, 79, 190, 100, 112, 110,
      140, 211>>

\* blob[off .. off + 20].copy_from_slice(bytes)
copy_from_slice(blob, off, bytes) ==
    [i \in 1..Len(blob) |->
        IF i > off /\ i <= off + ADDRESS_LEN THEN bytes[i - off] ELSE blob[i]]

\* blob[i .. i + 20]
Slice(blob, i) == SubSeq(blob, i + 1, i + ADDRESS_LEN)

\* Lengths of the deployed bytecode, offsets the sentinel may sit at, and
\* the bytes between the sentinels.
BlobLens == {100, 157, 200}
SentinelOffsets == {0, 60, 137, 180}
Filler(len) == [i \in 1..len |-> i % 7]

RECURSIVE WithSentinels(_, _)
WithSentinels(blob, offs) ==
    IF offs = {} THEN blob
    ELSE LET o == CHOOSE x \in offs : TRUE
         IN  WithSentinels(copy_from_slice(blob, o, PROXY_TARGET_CONSTANT), offs \ {o})

\* A blob of len bytes can hold a sentinel at each offset of offs.
Fits(len, offs) == \A o \in offs : o + ADDRESS_LEN <= len

\* The blobs CALLGASESTIMATIONPROXY_DEPLOYED_BYTECODE may be.
Blobs ==
    {WithSentinels(Filler(x[1]), x[2]) :
        x \in {y \in BlobLens \X (SUBSET SentinelOffsets) : Fits(y[1], y[2])}}

\* Addresses rand::thread_rng().gen() may return.
Targets ==
    {[i \in 1..ADDRESS_LEN |-> 170], [i \in 1..ADDRESS_LEN |-> 200 + i],
     PROXY_TARGET_CONSTANT}

\* Lines 357-363 with the target written one byte further on.
estimation_proxy_bytecode_with_target_off_by_one(blob, target) ==
    IF PROXY_TARGET_OFFSET + 1 + ADDRESS_LEN > Len(blob)
    THEN [panic |-> TRUE, vec |-> <<>>]
    ELSE [panic |-> FALSE, vec |-> copy_from_slice(blob, PROXY_TARGET_OFFSET + 1, target)]

\* Lines 357-363: a copy of the blob with the target written over the
\* 20 bytes at PROXY_TARGET_OFFSET; the slice aborts on a blob that ends
\* before PROXY_TARGET_OFFSET + 20.
estimation_proxy_bytecode_with_target(blob, target) ==
    IF PROXY_TARGET_OFFSET + ADDRESS_LEN > Len(blob)
    THEN [panic |-> TRUE, vec |-> <<>>]
    ELSE [panic |-> FALSE, vec |-> copy_from_slice(blob, PROXY_TARGET_OFFSET, target)]

\* Lines 409-414: the offsets i in lo .. hi - 1 at which blob[i .. i + 20] is
\* the sentinel, in the increasing order in which the loop pushes them (the
\* range is split in halves to keep the evaluation shallow).
RECURSIVE MatchingOffsets(_, _, _)
MatchingOffsets(blob, lo, hi) ==
    IF lo >= hi THEN <<>>
    ELSE IF lo + 1 = hi
    THEN (IF Slice(blob, lo) = PROXY_TARGET_CONSTANT THEN <<lo>> ELSE <<>>)
    ELSE LET mid == (lo + hi) \div 2
         IN  MatchingOffsets(blob, lo, mid) \o MatchingOffsets(blob, mid, hi)

\* Lines 406-416: the offsets the self-test collects, for i in
\* 0 .. len - 20, and its assertion.
test_proxy_target_offset(blob) ==
    LET offsets == MatchingOffsets(blob, 0, Len(blob) - ADDRESS_LEN)
    IN  [offsets |-> offsets, passed |-> (<<PROXY_TARGET_OFFSET>> = offsets)]

\* The calls of estimation_proxy_bytecode_with_target the model follows.
MaxRelocations == 2

InitProxy ==
    /\ settings = Settings(50, 20000, 100000)
    /\ chain_id = "Mainnet"
    /\ op = DemoOp
    /\ paymaster_and_data = 0
    /\ oracle = [mode |-> "monotone", T |-> 30]
    /\ Start

\* The build embeds a blob as CALLGASESTIMATIONPROXY_DEPLOYED_BYTECODE.
LoadBlob ==
    /\ ~proxy.loaded
    /\ \E b \in Blobs :
          proxy' = [loaded |-> TRUE, original |-> b, blob |-> b, tested |-> FALSE,
                    offsets |-> <<>>, passed |-> FALSE, relocated |-> <<>>,
                    panicked |-> FALSE]
    /\ UNCHANGED <<inputVars, estimateVars, verVars, callVars, abi, hashed, tracing, nodeVars>>

\* A run of test_proxy_target_offset.
TestProxyTargetOffset ==
    /\ proxy.loaded
    /\ ~proxy.tested
    /\ LET t == test_proxy_target_offset(proxy.blob)
       IN  proxy' = [proxy EXCEPT !.tested = TRUE, !.offsets = t.offsets,
                                  !.passed = t.passed]
    /\ UNCHANGED <<inputVars, estimateVars, verVars, callVars, abi, hashed, tracing, nodeVars>>

\* Lines 258-260: an estimate draws a target and relocates the proxy; the
\* static blob is read through to_vec() and stays as it is.
EstimationProxyBytecodeWithTarget ==
    /\ proxy.loaded
    /\ ~proxy.panicked
    /\ Len(proxy.relocated) < MaxRelocations
    /\ \E target \in Targets :
          LET r == estimation_proxy_bytecode_with_target(proxy.blob, target)
          IN  proxy' = IF r.panic
                       THEN [proxy EXCEPT !.panicked = TRUE]
                       ELSE [proxy EXCEPT !.relocated =
                                Append(@, [target |-> target, vec |-> r.vec])]
    /\ UNCHANGED <<inputVars, estimateVars, verVars, callVars, abi, hashed, tracing, nodeVars>>

NextProxy ==
    \/ LoadBlob
    \/ TestProxyTargetOffset
    \/ EstimationProxyBytecodeWithTarget

SpecProxy == InitProxy /\ [][NextProxy]_vars

(***************************************************************************)
(* One estimate against a node whose head moves.  The specifications       *)
(* above follow an estimate while the head stays where it is.              *)
(***************************************************************************)

\* The node imports a block while estimate_op_gas is running.
NewBlock ==
    /\ pc \in {"start", "pre_verification", "join"}
    /\ latest_block = "h1"
    /\ latest_block' \in BlockHashes \ {"h1"}
    /\ UNCHANGED <<inputVars, estimateVars, verVars, callVars, unitVars, evaluated_at>>

InitSnapshot ==
    /\ settings = Settings(50, 20000, 100000)
    /\ chain_id = "Mainnet"
    /\ op = DemoOp
    /\ paymaster_and_data = 0
    /\ oracle \in {[mode |-> "monotone", T |-> t] : t \in {30, 200000}}
    /\ Start

NextSnapshot ==
    \/ Next
    \/ NewBlock

SpecSnapshot == InitSnapshot /\ [][NextSnapshot]_vars

(***************************************************************************)
(* abi_encoded_size against the ABI encoding, on operations whose byte     *)
(* fields are empty, shorter than a word, whole words and in between.      *)
(***************************************************************************)
InitCodeLens == {0, 1, 20, 32, 33}
CallDataLens == {0, 23, 64}
SignatureLens == {0, 31, 65}
AbiPaymasterAndDataLens == {0, 19, 20, 40}

AbiOps ==
    {[DemoOp EXCEPT !.init_code = Bytes(ic, ic), !.call_data = Bytes(cd, cd \div 2),
                    !.signature = Bytes(sg, sg), !.call_gas_limit = g] :
        ic \in InitCodeLens, cd \in CallDataLens, sg \in SignatureLens,
        g \in {NoGas, SomeGas(10000)}}

InitAbi ==
    /\ settings = Settings(40000, 20000, 100000)
    /\ chain_id = "Mainnet"
    /\ op \in AbiOps
    /\ paymaster_and_data \in AbiPaymasterAndDataLens
    /\ oracle = [mode |-> "arbitrary", T |-> 0]
    /\ Start

\* abi_encoded_size() and abi_encode() of the operation uo that `fill` made.
AbiEncodedSize(fill, uo) ==
    /\ abi = NoAbi
    /\ abi' = [of |-> fill, size |-> abi_encoded_size(uo), encoded |-> abi_encode(uo)]
    /\ UNCHANGED <<inputVars, estimateVars, verVars, callVars, hashed, proxy, tracing, nodeVars>>

\* test_abi_encoded_size and test_abi_encoded_size_min: a full operation.
AbiEncodedSizeOfUserOperation ==
    AbiEncodedSize("into_user_operation",
                   into_user_operation(CallerOp, settings.max_call_gas,
                                       settings.max_verification_gas))

\* test_abi_encoded_size_max: a max-filled operation.
AbiEncodedSizeOfMaxFill ==
    AbiEncodedSize("max_fill",
                   max_fill(CallerOp, settings.max_call_gas, settings.max_verification_gas))

NextAbi ==
    \/ AbiEncodedSizeOfUserOperation
    \/ AbiEncodedSizeOfMaxFill

SpecAbi == InitAbi /\ [][NextAbi]_vars

(***************************************************************************)
(* UserOperation::hash on pairs of operations, entry points and chain ids. *)
(***************************************************************************)
EntryPoints == {"0x5ff1", "0x6666"}
ChainIds == {1, 1337}

\* The operations that differ from uo in at most one field.
OneFieldChanged(uo) ==
    {uo,
     [uo EXCEPT !.signature = Bytes(65, 65)],
     [uo EXCEPT !.sender = 19],
     [uo EXCEPT !.nonce = uo.nonce + 1],
     [uo EXCEPT !.init_code = Bytes(21, 21)],
     [uo EXCEPT !.call_data = Bytes(4, 4)],
     [uo EXCEPT !.call_gas_limit = uo.call_gas_limit + 1],
     [uo EXCEPT !.verification_gas_limit = uo.verification_gas_limit + 1],
     [uo EXCEPT !.pre_verification_gas = uo.pre_verification_gas + 1],
     [uo EXCEPT !.max_fee_per_gas = uo.max_fee_per_gas + 1],
     [uo EXCEPT !.max_priority_fee_per_gas = uo.max_priority_fee_per_gas + 1],
     [uo EXCEPT !.paymaster_and_data = Bytes(52, 52)]}

InitHash ==
    /\ settings = Settings(40000, 20000, 100000)
    /\ chain_id = "Mainnet"
    /\ op \in OptionalGasOps
    /\ paymaster_and_data \in {0, 20}
    /\ oracle = [mode |-> "arbitrary", T |-> 0]
    /\ Start

\* hash() of the caller's operation and of one that differs from it in at
\* most one field, each for an entry point and a chain id.
HashOperations ==
    /\ ~hashed.done
    /\ \E uo \in {ZeroedOp, into_user_operation(CallerOp, settings.max_call_gas,
                                                  settings.max_verification_gas)} :
          \E other \in OneFieldChanged(uo), ea \in EntryPoints, eb \in EntryPoints,
             ca \in ChainIds, cb \in ChainIds :
                hashed' = [done |-> TRUE, a |-> Hashed(uo, ea, ca),
                           b |-> Hashed(other, eb, cb)]
    /\ UNCHANGED <<inputVars, estimateVars, verVars, callVars, abi, proxy, tracing, nodeVars>>

NextHash == HashOperations

SpecHash == InitHash /\ [][NextHash]_vars

(***************************************************************************)
(* trace_find_user_operation (events/common.rs) on call traces of depth    *)
(* up to 3.  A call frame is its `to`, the operations its input decodes    *)
(* to, and its child calls.                                                *)
(***************************************************************************)

\* E::address(&self.chain_spec) and self.chain_spec.id.
EntryPointAddress == "0x5ff1"
ChainSpecId == 1

\* The operation that is looked for and another one.
WantedOp == ZeroedOp
OtherOp == [ZeroedOp EXCEPT !.nonce = 1]

CallFrame(to, input, calls) == [to |-> to, input |-> input, calls |-> calls]

\* E::get_user_operations_from_tx_data: the operations the input of a
\* frame decodes to, in order.
get_user_operations_from_tx_data(input) == input

\* Frames without child calls, to the entry point or to another contract.
Frames0 ==
    {CallFrame(to, input, <<>>) :
        to \in {EntryPointAddress, "0xacc0"},
        input \in {<<>>, <<OtherOp>>, <<OtherOp, WantedOp>>}}

\* Frames with up to two child calls, and frames with one such child.
Frames1 ==
    {CallFrame(f.to, f.input, calls) :
        f \in Frames0,
        calls \in {<<>>} \cup {<<c>> : c \in Frames0}
                    \cup {<<c, d>> : c \in Frames0, d \in Frames0}}
Frames2 ==
    {CallFrame(f.to, f.input, calls) :
        f \in Frames0, calls \in {<<c>> : c \in Frames1}}

\* What debug_trace_transaction can answer: a call trace, a trace of
\* another tracer, or an error.
GethTraces ==
    {[ok |-> TRUE, tracer |-> "CallTracer", frame |-> f] : f \in Frames1 \cup Frames2}
        \cup {[ok |-> TRUE, tracer |-> "Other", frame |-> CallFrame("", <<>>, <<>>)],
              [ok |-> FALSE, tracer |-> "", frame |-> CallFrame("", <<>>, <<>>)]}

\* Iterator::find: the first operation of ops whose hash is h, if any.
find(ops, h) ==
    LET hits == {k \in 1..Len(ops) : hash(ops[k], EntryPointAddress, ChainSpecId) = h}
    IN  IF hits = {} THEN [some |-> FALSE, uo |-> ZeroedOp]
        ELSE [some |-> TRUE, uo |-> ops[CHOOSE k \in hits : \A j \in hits : k <= j]]

\* Lines 225-248: one iteration of the loop on the frame popped from the
\* front of the queue, whose remainder is rest.
VisitFrame(call_frame, rest, h) ==
    IF call_frame.to = EntryPointAddress
    THEN LET found == find(get_user_operations_from_tx_data(call_frame.input), h)
         IN  IF found.some
             THEN [pc |-> "done", frame_queue |-> rest, result |-> "Some", uo |-> found.uo]
             ELSE [pc |-> "loop", frame_queue |-> rest, result |-> "", uo |-> ZeroedOp]
    ELSE [pc |-> "loop", frame_queue |-> rest \o call_frame.calls, result |-> "",
          uo |-> ZeroedOp]

InitTrace ==
    /\ settings = Settings(50, 20000, 100000)
    /\ chain_id = "Mainnet"
    /\ op = DemoOp
    /\ paymaster_and_data = 0
    /\ oracle = [mode |-> "monotone", T |-> 30]
    /\ Start

\* Lines 208-223: the call, the provider's answer and the initial queue.
DebugTraceTransaction ==
    /\ tracing.pc = "idle"
    /\ \E trace \in GethTraces :
          tracing' =
            IF ~trace.ok
            THEN [pc |-> "done", trace |-> trace, user_op_hash |-> hash(WantedOp, EntryPointAddress, ChainSpecId),
                  frame_queue |-> <<>>, result |-> "Err", uo |-> ZeroedOp, visited |-> 0]
            ELSE [pc |-> "loop", trace |-> trace, user_op_hash |-> hash(WantedOp, EntryPointAddress, ChainSpecId),
                  frame_queue |-> IF trace.tracer = "CallTracer" THEN <<trace.frame>> ELSE <<>>,
                  result |-> "", uo |-> ZeroedOp, visited |-> 0]
    /\ UNCHANGED <<inputVars, estimateVars, verVars, callVars, abi, hashed, proxy, nodeVars>>

\* Lines 225-249: an iteration of the while loop, or its exit with None.
TraceLoop ==
    /\ tracing.pc = "loop"
    /\ tracing' =
          IF tracing.frame_queue = <<>>
          THEN [tracing EXCEPT !.pc = "done", !.result = "None"]
          ELSE LET v == VisitFrame(Head(tracing.frame_queue), Tail(tracing.frame_queue),
                                   tracing.user_op_hash)
               IN  [tracing EXCEPT !.pc = v.pc, !.frame_queue = v.frame_queue,
                                   !.result = v.result, !.uo = v.uo,
                                   !.visited = @ + 1]
    /\ UNCHANGED <<inputVars, estimateVars, verVars, callVars, abi, hashed, proxy, nodeVars>>

NextTrace ==
    \/ DebugTraceTransaction
    \/ TraceLoop

SpecTrace == InitTrace /\ [][NextTrace]_vars

(***************************************************************************)
(* Properties.                                                             *)
(***************************************************************************)

\* The returned estimate and the raw results of the two searches.
returned_verification_gas_limit == result.verification_gas_limit
raw_verification_result == verRes.gas

\* C1: every Ok result of estimate_op_gas has verificationGasLimit <=
\* max_verification_gas and MIN_CALL_GAS_LIMIT <= callGasLimit <= max_call_gas.
C1_Clamping ==
    result.kind = "Ok" =>
        /\ result.verification_gas_limit <= settings.max_verification_gas
        /\ MIN_CALL_GAS_LIMIT <= result.call_gas_limit
        /\ result.call_gas_limit <= settings.max_call_gas

\* An Ok result whose two raw values both lie above their caps.
C1_Witness ==
    /\ result.kind = "Ok"
    /\ callRes.gas > settings.max_call_gas
    /\ verRes.gas > settings.max_verification_gas

\* C2 as claimed: the returned verificationGasLimit is >= the raw result of
\* the verification search, and strictly greater unless it equals the cap.
C2_Original ==
    result.kind = "Ok" =>
        /\ returned_verification_gas_limit >= raw_verification_result
        /\ \/ returned_verification_gas_limit > raw_verification_result
           \/ returned_verification_gas_limit = settings.max_verification_gas

\* C2 as amended: the returned verificationGasLimit is at least the smaller
\* of the raw result and the cap (the raw result can exceed the cap), and
\* strictly greater than a raw result >= 10 unless it is at the cap.
C2_BufferLaw ==
    result.kind = "Ok" =>
        /\ returned_verification_gas_limit
              >= Min(raw_verification_result, settings.max_verification_gas)
        /\ (raw_verification_result >= 10
              /\ returned_verification_gas_limit < settings.max_verification_gas)
             => returned_verification_gas_limit > raw_verification_result

\* An Ok result below the cap, above a raw result that is not zero.
C2_Witness ==
    /\ result.kind = "Ok"
    /\ raw_verification_result >= 10
    /\ returned_verification_gas_limit < settings.max_verification_gas
    /\ returned_verification_gas_limit > raw_verification_result

C4_Original ==
    (oracle.mode = "monotone" /\ verRes.kind = "Ok") => min_success_gas >= oracle.T

\* C5 as claimed: min_success_gas never exceeds max_verification_gas, in
\* every round of the loop and at exit.
C5_Original ==
    (verPc = "attempt" \/ verRes.kind = "Ok") =>
        min_success_gas <= settings.max_verification_gas

\* C6: when both searches fail, estimate_op_gas returns the verification
\* search's error.
C6_VerificationErrorWins ==
    (pc = "done" /\ IsErr(verRes) /\ IsErr(callRes)) => result = ErrEstimate(verRes)

\* Both searches failed, with different errors.
C6_Witness ==
    /\ pc = "done"
    /\ IsErr(verRes)
    /\ IsErr(callRes)
    /\ ErrEstimate(verRes) # ErrEstimate(callRes)

\* C7: estimate_op_gas returns from the join only when both searches have
\* finished, and what it returns is decided by their two results alone
\* (the verification error, else the call error, else an estimate): the
\* order in which their RPCs completed does not show in the outcome.
C7_NoShortCircuit ==
    (pc = "done" /\ verPc # "idle") =>
        /\ verPc = "done" /\ verRes.kind # "Pending"
        /\ callPc = "done" /\ callRes.kind # "Pending"
        /\ IsErr(verRes) => result = ErrEstimate(verRes)
        /\ (~IsErr(verRes) /\ IsErr(callRes)) => result = ErrEstimate(callRes)
        /\ (~IsErr(verRes) /\ ~IsErr(callRes)) => result.kind = "Ok"

\* One search has failed and estimate_op_gas is still waiting for the other.
C7_Witness ==
    /\ pc = "join"
    /\ IsErr(callRes)
    /\ verPc = "attempt"

\* The probe reverted and its revert data is not an ExecutionResult.
ProbeDecodedToValidationError ==
    /\ probe_response.kind = "revert"
    /\ ~probe_response.success
    /\ probe_response.result.tag # "ExecutionResult"

\* C8: if the probe reverts with data that does not decode as an
\* ExecutionResult, the verification search returns RevertInValidation with
\* the decoded message, and no gas number.
C8_RevertInValidation ==
    ProbeDecodedToValidationError =>
        verRes = RevertInValidation(probe_response.result.msg)

\* The search has returned RevertInValidation with a decoded message.
C8_Witness ==
    /\ ProbeDecodedToValidationError
    /\ verRes.kind = "RevertInValidation"
    /\ verRes.msg = "AA23 reverted"

\* A step that sends a call-gas request to the node.
CallRequestSent ==
    /\ callPc' = "request"
    /\ <<callPc, min_gas, max_gas, is_continuation>>'
          # <<callPc, min_gas, max_gas, is_continuation>>

\* A step that sends a verification attempt to the node.
AttemptSent == verPc' = "attempt" /\ num_rounds' # num_rounds

\* C9 as claimed: once the probe has decoded to a validation error, no
\* simulateHandleOp call (verification attempt or call-gas request) is sent.
C9_Original ==
    [][verRes.kind = "RevertInValidation" => (~CallRequestSent /\ ~AttemptSent)]_vars

\* C9 as amended: once the probe has decoded to a validation error, the
\* verification search has returned without sending any attempt (the
\* call-gas search, which the join keeps polling, still sends its requests).
C9_NoVerificationAttempt ==
    ProbeDecodedToValidationError => (verPc = "done" /\ num_rounds = 0)

\* The probe has decoded to a validation error and a call-gas request is
\* in flight.
C9_Witness ==
    /\ verRes.kind = "RevertInValidation"
    /\ callPc = "request"

\* The probe reported success, or its call returned without reverting.
ProbeDidNotRevert ==
    \/ probe_response.kind = "no_revert"
    \/ probe_response.kind = "revert" /\ probe_response.success

\* C10: if the probe reports success or returns without reverting, the
\* verification search fails with an Other error, sends no attempt and
\* returns no gas number.
C10_ProbeMustRevert ==
    ProbeDidNotRevert =>
        /\ verRes.kind = "Other"
        /\ verPc = "done"
        /\ num_rounds = 0

\* The probe reported success and the search returned an Other error.
C10_Witness ==
    /\ probe_response.kind = "revert"
    /\ probe_response.success
    /\ verRes.kind = "Other"

\* C11: an EstimateCallGasResult ends estimate_call_gas with exactly its
\* gas_estimate; the search sends no request after it has returned; and when
\* the result answers the first request (the one sent before any
\* continuation) the search has sent one simulateHandleOp call in all.
C11_ResultEndsSearch ==
    [][/\ (callPc = "request" /\ call_response'.kind = "target"
            /\ call_response'.tag = "Result" /\ callVars' # callVars)
           => /\ callPc' = "done"
              /\ callRes' = OkGas(call_response'.gas_estimate)
              /\ call_requests' = call_requests
              /\ ~is_continuation => call_requests' = 1
       /\ callPc = "done" => (callPc' = "done" /\ call_requests' = call_requests)]_vars

\* The first request was answered with a result above max_call_gas, and the
\* search returned it after one round-trip.
C11_Witness ==
    /\ call_response.kind = "target"
    /\ call_response.tag = "Result"
    /\ callRes = OkGas(call_response.gas_estimate)
    /\ call_response.gas_estimate > settings.max_call_gas
    /\ call_requests = 1

\* The proxy answered the last request with EstimateCallGasRevertAtMax.
RevertAtMaxAnswered ==
    call_response.kind = "target" /\ call_response.tag = "RevertAtMax"

\* C12: on EstimateCallGasRevertAtMax the search returns
\* RevertInCallWithMessage(msg) when revert_data is a standard revert string
\* and RevertInCallWithBytes(revert_data), the bytes unchanged, otherwise;
\* it has returned, so it sends no further request.
C12_RevertAtMax ==
    RevertAtMaxAnswered =>
        /\ callPc = "done"
        /\ callRes =
              IF call_response.revert_data.selector = "Error(string)"
              THEN RevertInCallWithMessage(call_response.revert_data.body)
              ELSE RevertInCallWithBytes(call_response.revert_data.bytes)

\* The search returned the message of a standard revert string.
C12_Witness ==
    /\ RevertAtMaxAnswered
    /\ callRes = RevertInCallWithMessage("boom")

\* C13 as claimed: estimate_op_gas returns RevertInCallWithMessage or
\* RevertInCallWithBytes only when the proxy answered
\* EstimateCallGasRevertAtMax, and a validation revert seen by the call-gas
\* search is returned by it as RevertInValidation.
C13_Original ==
    /\ result.kind \in {"RevertInCallWithMessage", "RevertInCallWithBytes"}
          => RevertAtMaxAnswered
    /\ call_response.kind = "validation_revert" => callRes.kind = "RevertInValidation"

\* The caller supplied a non-zero fee.
CallerSuppliedFees ==
    \/ op.max_fee_per_gas.some /\ op.max_fee_per_gas.val > 0
    \/ op.max_priority_fee_per_gas.some /\ op.max_priority_fee_per_gas.val > 0

\* C14: every operation the two searches have sent to the node carries
\* maxFeePerGas = 0 and maxPriorityFeePerGas = 0, whatever the caller supplied.
C14_ZeroFees ==
    \A o \in OpsInFlight : o.max_fee_per_gas = 0 /\ o.max_priority_fee_per_gas = 0

\* The caller supplied fees, and an attempt and a call-gas request are at
\* the node.
C14_Witness ==
    /\ CallerSuppliedFees
    /\ verPc = "attempt"
    /\ callPc = "request"

\* A user operation made of the caller's fixed fields and the given gas
\* fields, with zero fees: nothing in it comes from the optional gas fields.
FixedOp(pvg, vgl, cgl) ==
    [sender |-> op.sender,
     nonce |-> op.nonce,
     init_code |-> op.init_code,
     call_data |-> op.call_data,
     paymaster_and_data |-> Bytes(paymaster_and_data, paymaster_and_data),
     signature |-> op.signature,
     verification_gas_limit |-> vgl,
     call_gas_limit |-> cgl,
     pre_verification_gas |-> pvg,
     max_fee_per_gas |-> 0,
     max_priority_fee_per_gas |-> 0]

\* C15: what a run sends and returns is fixed by the settings, the node's
\* answers and the fixed fields of the operation, so two runs that differ in
\* the optional gas fields only agree: the working op carries
\* max_verification_gas, max_call_gas, the computed preVerificationGas and
\* zero fees; the probe, the attempts and the call-gas requests carry the
\* same with their own limits; the computed preVerificationGas is that of
\* the max-filled operation, in which every optional field is overwritten;
\* and the result is the one Finalize builds from the two searches' results.
C15_OptionalGasIgnored ==
    pc \in {"join", "done", "panicked"} /\ verPc # "idle" =>
        /\ WorkingOp = FixedOp(pre_verification_gas, settings.max_verification_gas,
                               settings.max_call_gas)
        /\ verPc = "probe" =>
              initial_op = FixedOp(pre_verification_gas,
                                   settings.max_simulate_handle_ops_gas, 0)
        /\ verPc = "attempt" => attempt_op(guess) = FixedOp(pre_verification_gas, guess, 0)
        /\ callPc = "request" =>
              callless_op = FixedOp(pre_verification_gas, settings.max_verification_gas, 0)
        /\ pre_verification_gas =
              gas_calc_pre_verification_gas(
                  [FixedOp(U128Max, U128Max, U128Max) EXCEPT
                      !.max_fee_per_gas = U128Max,
                      !.max_priority_fee_per_gas = U128Max,
                      !.signature = Bytes(op.signature.len, op.signature.len)],
                  chain_id, l1_data_gas)
        /\ result.kind = "Ok" =>
              result = OkEstimate(pre_verification_gas,
                                  Min(increase_by_percent(verRes.gas,
                                                          VERIFICATION_GAS_BUFFER_PERCENT),
                                      settings.max_verification_gas),
                                  clamp(callRes.gas, MIN_CALL_GAS_LIMIT,
                                        settings.max_call_gas))

\* A run whose caller set both gas limits and a fee returned an estimate.
C15_Witness ==
    /\ result.kind = "Ok"
    /\ op.call_gas_limit = SomeGas(U128Max)
    /\ op.verification_gas_limit = SomeGas(70000)
    /\ op.max_priority_fee_per_gas = SomeGas(7)

\* One of the four fallible steps of estimate_op_gas has failed: the block
\* hash fetch, the pre-verification gas calculation, or one of the searches.
SomeStepFailed ==
    \/ pc = "done" /\ block_hash = "none"
    \/ pc = "done" /\ block_hash # "none" /\ verPc = "idle"
    \/ IsErr(verRes)
    \/ IsErr(callRes)

\* C16: an Ok estimate is returned only when the block hash was fetched, the
\* pre-verification gas computed and both searches returned Ok; when a step
\* has failed, what estimate_op_gas returns is an error.
C16_NoPartialSuccess ==
    /\ result.kind = "Ok" =>
          /\ block_hash # "none"
          /\ result.pre_verification_gas = pre_verification_gas
          /\ verRes.kind = "Ok"
          /\ callRes.kind = "Ok"
    /\ SomeStepFailed => result.kind # "Ok"
    /\ (SomeStepFailed /\ pc = "done") => IsErr(result)

\* The verification search succeeded, the call-gas search failed, and
\* estimate_op_gas returned the error.
C16_Witness ==
    /\ pc = "done"
    /\ verRes.kind = "Ok"
    /\ IsErr(callRes)
    /\ IsErr(result)

\* C17: a transport error on a verification attempt ends the search with an
\* Other error: the step that receives it leaves max_failure_gas and
\* min_success_gas as they were and sends no further attempt.
C17_TransportErrorPropagates ==
    [][(verPc = "attempt" /\ verPc' # "attempt" /\ attempt_response' = "transport")
          => /\ verPc' = "done"
             /\ verRes' = Other("transport")
             /\ max_failure_gas' = max_failure_gas
             /\ min_success_gas' = min_success_gas
             /\ num_rounds' = num_rounds]_vars

\* An attempt failed in transport after the search had moved both bounds.
C17_Witness ==
    /\ attempt_response = "transport"
    /\ verRes.kind = "Other"
    /\ max_failure_gas > 0
    /\ max_failure_gas # guess
    /\ min_success_gas # guess

\* The settings leave no call gas limit between MIN_CALL_GAS_LIMIT and the cap.
InvalidSettings == settings.max_call_gas < MIN_CALL_GAS_LIMIT

\* C18: with max_call_gas < MIN_CALL_GAS_LIMIT, once both searches have
\* succeeded estimate_op_gas has aborted without a result; under such
\* settings it never returns an Ok estimate.
C18_InvalidSettingsAbort ==
    InvalidSettings =>
        /\ (verRes.kind = "Ok" /\ callRes.kind = "Ok") =>
              (pc = "panicked" /\ result = NoEstimate)
        /\ result.kind # "Ok"

\* Both searches succeeded under settings with max_call_gas = 10, and
\* estimate_op_gas aborted.
C18_Witness ==
    /\ InvalidSettings
    /\ verRes.kind = "Ok"
    /\ callRes.kind = "Ok"
    /\ pc = "panicked"

\* The max-filled operation of the caller's operation.
MaxFilledOp == max_fill(CallerOp, settings.max_call_gas, settings.max_verification_gas)

\* C19: once computed, the pre-verification gas is the static gas of the
\* max-filled operation on a chain without L1 data fee and that static gas
\* plus the provider's L1 data gas on Arbitrum and on Optimism; it is not
\* below the calldata cost of the max-filled operation; and an Ok estimate
\* carries it unchanged.
C19_PreVerificationGas ==
    (pc \in {"join", "done", "panicked"} /\ verPc # "idle") =>
        LET static_gas == calc_static_pre_verification_gas(MaxFilledOp, ChainSpec, TRUE)
        IN  /\ chain_id = "Mainnet" => pre_verification_gas = static_gas
            /\ chain_id \in {"Arbitrum", "Optimism"} =>
                  pre_verification_gas = static_gas + l1_data_gas
            /\ pre_verification_gas >=
                  op_calldata_gas_cost(abi_encode(MaxFilledOp),
                                       ChainSpec.calldata_zero_byte_gas,
                                       ChainSpec.calldata_non_zero_byte_gas,
                                       ChainSpec.per_user_op_word_gas)
            /\ result.kind = "Ok" => result.pre_verification_gas = pre_verification_gas

\* An estimate returned on Optimism with an L1 data gas of 1000, for a
\* caller whose own gas fields encode to fewer non-zero bytes than u128::MAX.
C19_Witness ==
    /\ result.kind = "Ok"
    /\ chain_id = "Optimism"
    /\ l1_data_gas = 1000
    /\ op = DemoOp
    /\ result.pre_verification_gas
          > 1000 + calc_static_pre_verification_gas(
                      into_user_operation(CallerOp, settings.max_call_gas,
                                          settings.max_verification_gas),
                      ChainSpec, TRUE)

\* n rounded up to a multiple of 32.
RoundedUpTo32(n) == n + ((32 - (n % 32)) % 32)

SameButSignature ==
    [hashed.a.op EXCEPT !.signature = hashed.b.op.signature] = hashed.b.op

\* C21: two operations that differ at most in their signature have the same
\* hash for the same entry point and chain id; a different entry point or
\* chain id gives a different encoded preimage; and equal inputs give equal
\* hashes.
C21_HashIgnoresSignature ==
    hashed.done =>
        /\ (SameButSignature /\ hashed.a.entry_point = hashed.b.entry_point
              /\ hashed.a.chain_id = hashed.b.chain_id)
             => hashed.a.hash = hashed.b.hash
        /\ (hashed.a.entry_point # hashed.b.entry_point
              \/ hashed.a.chain_id # hashed.b.chain_id)
             => hashed.a.encoded # hashed.b.encoded

\* Two operations with different signatures were hashed to the same hash.
C21_Witness ==
    /\ hashed.done
    /\ hashed.a.op.signature # hashed.b.op.signature
    /\ hashed.a.hash = hashed.b.hash

\* A round of the loop: an attempt is answered and the next one is sent.
VerificationRound ==
    /\ verPc = "attempt"
    /\ verPc' = "attempt"
    /\ num_rounds' = num_rounds + 1

\* C22 as claimed, in the form a finite run refutes: against a monotone
\* node every round of the loop changes the state of the search (its two
\* bounds and the guess it sends next), so that the loop condition becomes
\* false after finitely many rounds.  (After a round that changes none of
\* them the search sends the same attempt from the same state, the node
\* answers it as before, and the round repeats for ever.)
C22_Original ==
    [][(oracle.mode = "monotone" /\ VerificationRound)
          => <<max_failure_gas, min_success_gas, guess>>'
                # <<max_failure_gas, min_success_gas, guess>>]_vars

\* A step in which estimate_call_gas handles the answer to a request.
CallRequestAnswered == callPc = "request" /\ callVars' # callVars

\* C23: every answer to a call-gas request ends the search or sends the next
\* request with min_gas raised or max_gas lowered, except that the first
\* continuation may leave both as they are; so the number of requests is
\* bounded by the number of values the two bounds can take.
C23_CallSearchProgress ==
    [][CallRequestAnswered =>
          \/ callPc' = "done"
          \/ /\ callPc' = "request"
             /\ call_response'.tag = "Continuation"
             /\ min_gas' >= min_gas
             /\ max_gas' <= max_gas
             /\ min_gas' > min_gas \/ max_gas' < max_gas \/ ~is_continuation]_vars

\* The search is sending its fourth request.
C23_Witness ==
    /\ callPc = "request"
    /\ call_requests = 4

\* The answer is a continuation that does not tighten the bounds of the
\* request it answers.
NoProgress ==
    /\ call_response'.kind = "target"
    /\ call_response'.tag = "Continuation"
    /\ call_response'.min_gas <= min_gas
    /\ call_response'.max_gas >= max_gas

\* C24: a continuation that arrives in continuation mode with cont.min_gas <=
\* min_gas and cont.max_gas >= max_gas ends the search with an Other error;
\* two successive requests with isContinuation = true never carry the same
\* (min_gas, max_gas).
C24_ProgressGuard ==
    [][CallRequestAnswered =>
          /\ (is_continuation /\ NoProgress)
                => (callPc' = "done" /\ callRes'.kind = "Other")
          /\ (is_continuation /\ callPc' = "request")
                => <<min_gas, max_gas>>' # <<min_gas, max_gas>>]_vars

\* The search was ended by the progress guard.
C24_Witness ==
    /\ callPc = "done"
    /\ call_requests >= 2
    /\ call_response.tag = "Continuation"
    /\ callRes = Other("estimateCallGas should make progress each time it is called")

\* C25: the first request carries (0, max_call_gas, false); every later one
\* carries isContinuation = true; from one request to the next min_gas does
\* not decrease and max_gas does not increase, so max_gas stays <= max_call_gas.
C25_BoundsOnlyTighten ==
    [][callPc' = "request" =>
          /\ call_requests' = 1 =>
                (min_gas' = 0 /\ max_gas' = settings.max_call_gas /\ ~is_continuation')
          /\ call_requests' > 1 => is_continuation'
          /\ max_gas' <= settings.max_call_gas
          /\ callPc = "request" => (min_gas' >= min_gas /\ max_gas' <= max_gas)]_vars

\* A later request whose bounds were both tightened, after a continuation
\* whose own lower bound was below the current one.
C25_Witness ==
    /\ callPc = "request"
    /\ is_continuation
    /\ min_gas = 12288
    /\ max_gas = 8192 \/ max_gas = 20000
    /\ call_response.min_gas = 4096

\* The blocks the node calls of the searches were evaluated at.
SnapshotsRead ==
    {evaluated_at[k] : k \in {"probe", "attempt", "get_code", "request"}} \ {"none"}

\* C26: the probe, every verification attempt, the entry point's get_code
\* and every call-gas request of one estimate_op_gas are evaluated at the
\* block hash that estimate fetched.
C26_Original == SnapshotsRead \subseteq {block_hash}

\* What the code does: the attempts, get_code and the call-gas requests
\* are evaluated at the fetched block hash.
C26_AllButProbeAtBlockHash ==
    \A k \in {"attempt", "get_code", "request"} : evaluated_at[k] \in {"none", block_hash}

\* The probe was evaluated at a later block than an attempt of the same
\* estimate.
C26_ProbeAtLaterBlock ==
    /\ evaluated_at.probe = "h2"
    /\ evaluated_at.attempt = "h1"
    /\ block_hash = "h1"

\* calc_pre_verification_gas has been called and has not returned.
PreVerificationInFlight == pc = "pre_verification"

\* A simulateHandleOp call of one of the searches is in flight.
SimulateHandleOpInFlight ==
    \/ verPc \in {"probe", "attempt"}
    \/ callPc = "request"

\* C27 as claimed: the searches are issued together with the
\* pre-verification gas calculation, so the step that sends the probe leaves
\* that calculation in flight.
C27_Original ==
    [][(verPc = "idle" /\ verPc' = "probe") => PreVerificationInFlight']_vars

\* C27 as amended: the pre-verification gas calculation has returned before
\* either search is issued, so its provider call is never in flight together
\* with a call of a search; the two searches are issued in one step and run
\* concurrently.
C27_PreVerificationBeforeSearches ==
    /\ (verPc # "idle" \/ callPc # "idle") => pc \notin {"start", "pre_verification"}
    /\ ~(PreVerificationInFlight /\ SimulateHandleOpInFlight)
    /\ verPc = "idle" <=> callPc = "idle"

\* On a chain with an L1 data fee, both searches have a simulateHandleOp
\* call in flight after the calculation has returned.
C27_Witness ==
    /\ chain_id = "Arbitrum"
    /\ l1_data_gas = 1000
    /\ verPc = "attempt"
    /\ callPc = "request"

\* The probe reverted with an ExecutionResult, so the search went on to
\* compute its initial guess.
ProbeUsable ==
    /\ probe_response.kind = "revert"
    /\ ~probe_response.success
    /\ probe_response.result.tag = "ExecutionResult"

\* C28: after a usable probe the search has aborted, or the guess of its
\* first attempt is exactly twice the probe's gas_used; a gas_used that does
\* not fit in 64 bits aborts the search.
C28_Original ==
    ProbeUsable =>
        /\ (verPc = "attempt" /\ num_rounds = 1) => guess = 2 * probe_response.gas_used
        /\ probe_response.gas_used >= U64Modulus => pc = "panicked"

\* Byte i (from 0) lies in the 20 bytes at PROXY_TARGET_OFFSET.
InTargetWindow(i) == i >= PROXY_TARGET_OFFSET /\ i < PROXY_TARGET_OFFSET + ADDRESS_LEN

\* C29: what estimation_proxy_bytecode_with_target(target) returns has the
\* length of the blob, target in bytes [PROXY_TARGET_OFFSET,
\* PROXY_TARGET_OFFSET + 20) and the blob's byte everywhere else; the blob
\* itself is as it was, whatever targets earlier calls wrote.
C29_RelocationFrame ==
    proxy.loaded =>
        /\ proxy.blob = proxy.original
        /\ \A k \in 1..Len(proxy.relocated) :
              LET r == proxy.relocated[k]
              IN  /\ Len(r.vec) = Len(proxy.original)
                  /\ \A i \in 0..(Len(r.vec) - 1) :
                        r.vec[i + 1] = IF InTargetWindow(i)
                                       THEN r.target[i - PROXY_TARGET_OFFSET + 1]
                                       ELSE proxy.original[i + 1]

\* Two estimates relocated a blob longer than the window's end to
\* different targets.
C29_Witness ==
    /\ proxy.loaded
    /\ Len(proxy.original) > PROXY_TARGET_OFFSET + ADDRESS_LEN
    /\ Len(proxy.relocated) = 2
    /\ proxy.relocated[1].target # proxy.relocated[2].target

\* Every offset at which the sentinel occurs in the blob.
SentinelOccurrences(blob) ==
    {i \in 0..(Len(blob) - ADDRESS_LEN) : Slice(blob, i) = PROXY_TARGET_CONSTANT}

\* C30: the self-test collects every offset at which the sentinel occurs
\* in the blob, and passes exactly when the sentinel occurs once, at
\* PROXY_TARGET_OFFSET.
C30_Original ==
    (proxy.loaded /\ proxy.tested) =>
        /\ {proxy.offsets[k] : k \in 1..Len(proxy.offsets)} = SentinelOccurrences(proxy.blob)
        /\ proxy.passed <=> SentinelOccurrences(proxy.blob) = {PROXY_TARGET_OFFSET}

\* The node validates the operation at every verification gas limit, so
\* every attempt of the search succeeds.
EveryAttemptSucceeds == oracle.mode = "monotone" /\ oracle.T = 0

C32_Original == callPc = "request" => min_gas <= max_gas

\* What the code keeps: each bound of a request is the tightest the
\* continuations so far have named, whether or not the two still cross.
C32_BoundsAreTightestNamed ==
    (callPc = "request" /\ is_continuation) =>
        /\ min_gas >= call_response.min_gas
        /\ max_gas <= call_response.max_gas

\* The number of frames of the call tree rooted at f (depth up to 3).
FrameCount(f) ==
    1 + Len(f.calls)
      + (IF Len(f.calls) = 0 THEN 0
         ELSE Len(f.calls[1].calls)
              + (IF Len(f.calls) = 2 THEN Len(f.calls[2].calls) ELSE 0))

\* The frames of the call tree rooted at f (depth up to 3).
FramesOf(f) ==
    {f} \cup {f.calls[k] : k \in 1..Len(f.calls)}
        \cup UNION {{f.calls[k].calls[j] : j \in 1..Len(f.calls[k].calls)} :
                        k \in 1..Len(f.calls)}

\* Frame f is addressed to the entry point and carries an operation with
\* the hash that is looked for.
CarriesWanted(f) ==
    /\ f.to = EntryPointAddress
    /\ \E k \in 1..Len(f.input) :
          hash(f.input[k], EntryPointAddress, ChainSpecId) = tracing.user_op_hash

\* C33: on a call trace, trace_find_user_operation returns Some of an
\* operation with the wanted hash whenever a frame to the entry point
\* carries one, at whatever depth, and None only when no frame does; it
\* visits each frame at most once.
C33_Original ==
    (tracing.pc = "done" /\ tracing.result # "Err" /\ tracing.trace.tracer = "CallTracer") =>
        /\ (\E f \in FramesOf(tracing.trace.frame) : CarriesWanted(f))
                => /\ tracing.result = "Some"
                   /\ hash(tracing.uo, EntryPointAddress, ChainSpecId) = tracing.user_op_hash
        /\ tracing.result = "None"
                => ~(\E f \in FramesOf(tracing.trace.frame) : CarriesWanted(f))
        /\ tracing.visited <= FrameCount(tracing.trace.frame)

\* What the code does: an operation it returns has the wanted hash, the
\* traversal visits each frame at most once, and a carrying frame is missed
\* only below a frame to the entry point.
C33_FoundUnlessBelowEntryPoint ==
    (tracing.pc = "done" /\ tracing.result # "Err" /\ tracing.trace.tracer = "CallTracer") =>
        /\ tracing.result = "Some"
                => hash(tracing.uo, EntryPointAddress, ChainSpecId) = tracing.user_op_hash
        /\ tracing.visited <= FrameCount(tracing.trace.frame)
        /\ (tracing.result = "None"
                /\ \E f \in FramesOf(tracing.trace.frame) : CarriesWanted(f))
                => \/ tracing.trace.frame.to = EntryPointAddress
                   \/ \E k \in 1..Len(tracing.trace.frame.calls) :
                        tracing.trace.frame.calls[k].to = EntryPointAddress

====
